---- MODULE Spec2Model ----
\* Model of the semantic gateway endpoints (api/endpoints/semantic.py) and of
\* the health endpoint (api/endpoints/status.py).  One inbound call is handled
\* at a time; every await of an external collaborator (LLM client, intent
\* dispatcher, datastore ping, cache ping) is a suspension point and splits
\* the handler into steps.
EXTENDS Integers, Sequences, FiniteSets, TLC

\* ------------------------------------------------------------------ bounds
MaxMessages == 2      \* longest payload.messages list that is enumerated
MaxClock == 2         \* the UTC clock runs over 0..MaxClock
MaxRequests == 2      \* number of gateway calls (uuid4 draws) in one run

\* ------------------------------------------------------ values and helpers
Users == {"u1", "u2"}

\* Optional[str]: some = FALSE is None / a missing key
NoneStr == [some |-> FALSE, val |-> ""]
SomeStr(s) == [some |-> TRUE, val |-> s]
\* Optional[List[...]]
NoneList == [some |-> FALSE, val |-> <<>>]
SomeList(l) == [some |-> TRUE, val |-> l]

\* Python truthiness of an Optional[str]: None and "" are falsy
TruthyStr(o) == o.some /\ o.val # ""
\* Python truthiness of an Optional[List]: None and [] are falsy
TruthyList(o) == o.some /\ Len(o.val) > 0

Message(t, r, c) == [type |-> t, role |-> r, content |-> c]

MessagePool == {Message("text", "user", "hi"), Message("text", "system", "be brief")}

SeqsUpTo(S, n) == UNION {[1..k -> S] : k \in 0..n}

MessageLists == {NoneList} \cup {SomeList(l) : l \in SeqsUpTo(MessagePool, MaxMessages)}
Inputs == {NoneStr, SomeStr(""), SomeStr("hello")}
Timestamps == {NoneStr, SomeStr(""), SomeStr("2024-05-01T10:00:00")}

Metadata(sid, uid, mode, ts) ==
    [session_id |-> sid, user_id |-> uid, mode |-> mode, timestamp |-> ts]

RequestPayloads ==
    {[messages |-> ms, input |-> inp, model |-> NoneStr,
      temperature |-> NoneStr, max_tokens |-> NoneStr,
      metadata |-> Metadata("s1", uid, mode, ts)] :
        ms \in MessageLists, inp \in Inputs, uid \in Users,
        mode \in {"chat"}, ts \in Timestamps}

NoPayload ==
    [messages |-> NoneList, input |-> NoneStr, model |-> NoneStr,
     temperature |-> NoneStr, max_tokens |-> NoneStr,
     metadata |-> Metadata("", "", "", NoneStr)]

ProcessRequestInputs ==
    {[text |-> "order two coffees", session_id |-> "s1", user_id |-> uid] : uid \in Users}

NoRequestData == [text |-> "", session_id |-> "", user_id |-> ""]

\* exceptions: a class name and the text str(e) yields
Exc(t, x) == [type |-> t, text |-> x]
NoException == Exc("", "")
\* the classes for which isinstance(e, ValueError) holds
IsValueError(e) == e.type = "ValueError"

\* what the collaborators can raise
CollaboratorErrors ==
    {Exc(t, x) : t \in {"ValueError", "RuntimeError", "ConnectionError"},
                 x \in {"bad mode", "db host 10.0.0.7 refused"}}

\* an HTTPException detail: a text, and for the health check the interpolated
\* overall status and component dict
Text(s) == [text |-> s, overall |-> "", components |-> {}]
HTTPException(code, detail) == [status_code |-> code, detail |-> detail]
NoHTTPError == HTTPException(0, Text(""))

\* datetime.isoformat() of the clock value: distinct instants, distinct texts
IsoStrings ==
    <<"1970-01-01T00:00:00+00:00", "1970-01-01T00:00:01+00:00",
      "1970-01-01T00:00:02+00:00", "1970-01-01T00:00:03+00:00",
      "1970-01-01T00:00:04+00:00", "1970-01-01T00:00:05+00:00">>
IsoFormat(t) == IsoStrings[t + 1]

\* str(uuid.uuid4()): the n-th draw is fresh
UuidStrings == <<"uuid-1", "uuid-2", "uuid-3", "uuid-4", "uuid-5", "uuid-6">>
Uuid4Str(n) == UuidStrings[n]

\* ------------------------------------------------------------------- state
VARIABLES
    pc,                 \* position of the call being handled
    flow,               \* "", "process_request", "legacy", "status"
    current_user,       \* authenticated identity's id
    payload,            \* RequestPayload object (its metadata is mutated in place)
    payload_in,         \* the RequestPayload as it was received
    request_data,       \* ProcessRequestInput of the legacy flow
    request_id,         \* correlation id of the call
    next_uuid,          \* index of the next uuid4 draw
    now,                \* UTC clock
    llm_calls,          \* calls made to the LLM client during this call
    dispatch_calls,     \* calls made to dispatch_intent during this call
    handler_runs,       \* intent handlers executed during this call
    llm_response,       \* value returned by get_intent_and_entities
    dispatcher_result,  \* value returned by dispatch_intent
    raised,             \* exception that reached the except clauses
    http_error,         \* HTTPException leaving the handler
    result,             \* ResponsePayload returned by process_request
    output,             \* ProcessRequestOutput returned by legacy_process_request
    seen500,            \* failures outside the validation class, with the response each got
    db_state,           \* datastore as the health check finds it: up, down, hung
    redis_state,        \* cache/broker as the health check finds it
    probes_issued,      \* pings the health check has sent, in order
    component_statuses, \* dict component name -> status text
    overall_ok,         \* the health check's running verdict
    status_response     \* StatusResponse returned by get_application_status

gatewayVars ==
    <<flow, current_user, payload, payload_in, request_data, request_id, next_uuid,
      llm_calls, dispatch_calls, handler_runs, llm_response, dispatcher_result,
      raised, http_error, result, output, seen500>>

healthVars ==
    <<db_state, redis_state, probes_issued, component_statuses, overall_ok, status_response>>

vars == <<pc, now, gatewayVars, healthVars>>

NoResult == [messages |-> <<>>, metadata |-> Metadata("", "", "", NoneStr), usage |-> NoneStr]
NoLLMResponse == [has_intent |-> FALSE, intent |-> "", entities |-> ""]
NoDispatcherResult == [status |-> NoneStr, message |-> NoneList, order_id |-> ""]
NoStatusResponse == [status |-> "", message |-> ""]
NoOutput ==
    [status |-> "", message |-> <<>>, intent |-> "", data |-> NoDispatcherResult,
     request_id |-> ""]

Init ==
    /\ pc = "idle"
    /\ flow = ""
    /\ current_user = ""
    /\ payload = NoPayload
    /\ payload_in = NoPayload
    /\ request_data = NoRequestData
    /\ request_id = ""
    /\ next_uuid = 1
    /\ now = 0
    /\ llm_calls = <<>>
    /\ dispatch_calls = <<>>
    /\ handler_runs = 0
    /\ llm_response = NoLLMResponse
    /\ dispatcher_result = NoDispatcherResult
    /\ raised = NoException
    /\ http_error = NoHTTPError
    /\ result = NoResult
    /\ output = NoOutput
    /\ seen500 = {}
    /\ db_state = "up"
    /\ redis_state = "up"
    /\ probes_issued = <<>>
    /\ component_statuses = {}
    /\ overall_ok = TRUE
    /\ status_response = NoStatusResponse

\* ------------------------------------------------- process_request (modern)

\* the authorization check left out
PrUserIdMismatch_Skipped(p, u) == FALSE

\* semantic.py:55  payload.metadata.user_id != current_user.id
PrUserIdMismatch(p, u) == p.metadata.user_id # u

\* semantic.py:65,67  one of the two branches that yield messages is taken
HasMessagesOrInput(p) == TruthyList(p.messages) \/ TruthyStr(p.input)

\* the legacy input taking precedence over the messages
ResolveMessages_InputFirst(p) ==
    IF TruthyStr(p.input) THEN <<Message("text", "user", p.input.val)>>
    ELSE IF TruthyList(p.messages) THEN p.messages.val
    ELSE <<>>

\* semantic.py:64-75  the messages handed to the LLM client
ResolveMessages(p) ==
    IF TruthyList(p.messages) THEN p.messages.val
    ELSE IF TruthyStr(p.input) THEN <<Message("text", "user", p.input.val)>>
    ELSE <<>>

\* the server error echoing the exception text
PrExceptClauses_EchoText(e) ==
    IF IsValueError(e) THEN HTTPException(400, Text(e.text))
    ELSE HTTPException(500, Text(e.text))

\* semantic.py:106-117  except ValueError / except Exception
PrExceptClauses(e) ==
    IF IsValueError(e) THEN HTTPException(400, Text(e.text))
    ELSE HTTPException(500, Text("An error occurred while processing the request"))

\* the responses recorded for failures outside the validation class
Record500(f, e, h) ==
    IF IsValueError(e) THEN seen500
    ELSE seen500 \cup {[flow |-> f, failure |-> e, response |-> h]}

\* semantic.py:26-90  entry, authorization check, message resolution, LLM call
ProcessRequestCall ==
    /\ pc = "idle"
    /\ next_uuid <= MaxRequests
    /\ \E p \in RequestPayloads, u \in Users :
        /\ flow' = "process_request"
        /\ current_user' = u
        /\ payload' = p
        /\ payload_in' = p
        /\ request_id' = Uuid4Str(next_uuid)
        /\ next_uuid' = next_uuid + 1
        /\ IF PrUserIdMismatch(p, u)
           THEN /\ http_error' = HTTPException(403, Text("User ID in payload does not match authenticated user"))
                /\ pc' = "done"
                /\ UNCHANGED <<llm_calls, raised, seen500>>
           ELSE IF HasMessagesOrInput(p)
           THEN /\ llm_calls' = Append(llm_calls,
                        [method |-> "process_request", messages |-> ResolveMessages(p),
                         mode |-> p.metadata.mode, model |-> p.model,
                         temperature |-> p.temperature, max_tokens |-> p.max_tokens])
                /\ pc' = "pr_await_llm"
                /\ UNCHANGED <<http_error, raised, seen500>>
           ELSE LET e == Exc("HTTPException", "Request must contain either 'input' or 'messages'")
                IN /\ raised' = e
                   /\ http_error' = PrExceptClauses(e)
                   /\ seen500' = Record500("process_request", e, PrExceptClauses(e))
                   /\ pc' = "done"
                   /\ UNCHANGED llm_calls
    /\ UNCHANGED <<healthVars, now, request_data, dispatch_calls, handler_runs, llm_response,
                   dispatcher_result, result, output>>

\* what llm_client.process_request can return: a dict with or without "messages"
LLMReplies ==
    {[has_messages |-> h, messages |-> <<Message("text", "assistant", "hello there")>>,
      usage |-> u] : h \in BOOLEAN, u \in {NoneStr, SomeStr("12 tokens")}}

\* the timestamp overwritten whether or not one was supplied
FillTimestamp_Always(md, t) == [md EXCEPT !.timestamp = SomeStr(IsoFormat(t))]

\* semantic.py:93-94  fill the timestamp when it is falsy
FillTimestamp(md, t) ==
    IF ~TruthyStr(md.timestamp)
    THEN [md EXCEPT !.timestamp = SomeStr(IsoFormat(t))]
    ELSE md

\* semantic.py:97-101  ResponsePayload(messages, metadata, usage)
BuildResponsePayload(reply, md) ==
    [messages |-> reply.messages, metadata |-> md, usage |-> reply.usage]

\* semantic.py:84-104  the LLM call returns; timestamp, response construction
ProcessRequestLLMReturns ==
    /\ pc = "pr_await_llm"
    /\ \E reply \in LLMReplies :
        IF reply.has_messages
        THEN /\ payload' = [payload EXCEPT !.metadata = FillTimestamp(payload.metadata, now)]
             /\ result' = BuildResponsePayload(reply, payload'.metadata)
             /\ UNCHANGED <<raised, http_error, seen500>>
        ELSE LET e == Exc("KeyError", "'messages'")
             IN /\ raised' = e
                /\ http_error' = PrExceptClauses(e)
                /\ seen500' = Record500("process_request", e, PrExceptClauses(e))
                /\ UNCHANGED <<payload, result>>
    /\ pc' = "done"
    /\ UNCHANGED <<healthVars, now, flow, current_user, payload_in, request_data, request_id, next_uuid,
                   llm_calls, dispatch_calls, handler_runs, llm_response,
                   dispatcher_result, output>>

\* semantic.py:84-90,106-117  the LLM call raises
ProcessRequestLLMRaises ==
    /\ pc = "pr_await_llm"
    /\ \E e \in CollaboratorErrors :
        /\ raised' = e
        /\ http_error' = PrExceptClauses(e)
        /\ seen500' = Record500("process_request", e, PrExceptClauses(e))
    /\ pc' = "done"
    /\ UNCHANGED <<healthVars, now, flow, current_user, payload, payload_in, request_data, request_id,
                   next_uuid, llm_calls, dispatch_calls, handler_runs, llm_response,
                   dispatcher_result, result, output>>

\* ------------------------------------------------- legacy_process_request

\* semantic.py:157  request_data.user_id != current_user.id
LegacyUserIdMismatch(r, u) == r.user_id # u

\* every failure treated as a server error
LegacyExceptClauses_All500(e) == HTTPException(500, Text("Internal server error"))

\* semantic.py:197-208  except ValueError / except Exception
LegacyExceptClauses(e) ==
    IF IsValueError(e) THEN HTTPException(400, Text(e.text))
    ELSE HTTPException(500, Text("Internal server error"))

\* semantic.py:128-172  entry, authorization check, intent extraction call
LegacyProcessRequestCall ==
    /\ pc = "idle"
    /\ next_uuid <= MaxRequests
    /\ \E r \in ProcessRequestInputs, u \in Users :
        /\ flow' = "legacy"
        /\ current_user' = u
        /\ request_data' = r
        /\ request_id' = Uuid4Str(next_uuid)
        /\ next_uuid' = next_uuid + 1
        /\ IF LegacyUserIdMismatch(r, u)
           THEN /\ http_error' = HTTPException(403, Text("User ID in payload does not match authenticated user"))
                /\ pc' = "done"
                /\ UNCHANGED llm_calls
           ELSE /\ llm_calls' = Append(llm_calls,
                        [method |-> "get_intent_and_entities", text |-> r.text,
                         session_id |-> r.session_id])
                /\ pc' = "lg_await_llm"
                /\ UNCHANGED http_error
    /\ UNCHANGED <<healthVars, now, payload, payload_in, dispatch_calls, handler_runs, llm_response,
                   dispatcher_result, raised, result, output, seen500>>

\* the intent names the resolver can come back with
Intents == {"create_order", "check_stock", "launch_rocket"}

\* what get_intent_and_entities can return: a dict with or without "intent"
IntentReplies ==
    {[has_intent |-> h, intent |-> i, entities |-> "item=coffee,qty=2"] :
        h \in BOOLEAN, i \in Intents}

\* semantic.py:169-181  the extraction returns; the intent is dispatched
LegacyLLMReturns ==
    /\ pc = "lg_await_llm"
    /\ \E reply \in IntentReplies :
        /\ llm_response' = reply
        /\ IF reply.has_intent
           THEN /\ dispatch_calls' = Append(dispatch_calls,
                        [intent |-> reply.intent, entities |-> reply.entities,
                         user_id |-> current_user])
                /\ pc' = "lg_await_dispatch"
                /\ UNCHANGED <<raised, http_error, seen500>>
           ELSE LET e == Exc("KeyError", "'intent'")
                IN /\ raised' = e
                   /\ http_error' = LegacyExceptClauses(e)
                   /\ seen500' = Record500("legacy", e, LegacyExceptClauses(e))
                   /\ pc' = "done"
                   /\ UNCHANGED dispatch_calls
    /\ UNCHANGED <<healthVars, now, flow, current_user, payload, payload_in, request_data, request_id,
                   next_uuid, llm_calls, handler_runs, dispatcher_result, result, output>>

\* semantic.py:169-172,197-208  the extraction raises
LegacyLLMRaises ==
    /\ pc = "lg_await_llm"
    /\ \E e \in CollaboratorErrors :
        /\ raised' = e
        /\ http_error' = LegacyExceptClauses(e)
        /\ seen500' = Record500("legacy", e, LegacyExceptClauses(e))
    /\ pc' = "done"
    /\ UNCHANGED <<healthVars, now, flow, current_user, payload, payload_in, request_data, request_id,
                   next_uuid, llm_calls, dispatch_calls, handler_runs, llm_response,
                   dispatcher_result, result, output>>

\* the intent dispatcher: registry of handlers, error for an unknown intent
HandlerRegistry == {"create_order", "check_stock"}
UnroutableIntent(intent) == Exc("ValueError", "Unknown intent")

\* raw results a handler can return: "status" and "message" may be missing
HandlerResults ==
    {[status |-> st, message |-> m, order_id |-> "o-17"] :
        st \in {NoneStr, SomeStr("failed")},
        m \in {NoneList, SomeList(<<"Order placed.">>)}}

\* the defaults applied even when the dispatcher result has the keys
BuildProcessRequestOutput_DefaultsOnly(dr, intent, rid) ==
    [status |-> "success",
     message |-> <<"Action for intent '", intent, "' completed.">>,
     intent |-> intent,
     data |-> dr,
     request_id |-> rid]

\* semantic.py:186-195  defaults and ProcessRequestOutput
BuildProcessRequestOutput(dr, intent, rid) ==
    [status |-> IF dr.status.some THEN dr.status.val ELSE "success",
     message |-> IF dr.message.some THEN dr.message.val
                 ELSE <<"Action for intent '", intent, "' completed.">>,
     intent |-> intent,
     data |-> dr,
     request_id |-> rid]

\* semantic.py:177-195  the handler found for the intent returns
DispatchReturns ==
    /\ pc = "lg_await_dispatch"
    /\ llm_response.intent \in HandlerRegistry
    /\ \E dr \in HandlerResults :
        /\ dispatcher_result' = dr
        /\ output' = BuildProcessRequestOutput(dr, llm_response.intent, request_id)
    /\ handler_runs' = handler_runs + 1
    /\ pc' = "done"
    /\ UNCHANGED <<healthVars, now, flow, current_user, payload, payload_in, request_data, request_id,
                   next_uuid, llm_calls, dispatch_calls, llm_response, raised,
                   http_error, result, seen500>>

\* semantic.py:177-181,197-208  the handler found for the intent raises
DispatchHandlerRaises ==
    /\ pc = "lg_await_dispatch"
    /\ llm_response.intent \in HandlerRegistry
    /\ \E e \in CollaboratorErrors :
        /\ raised' = e
        /\ http_error' = LegacyExceptClauses(e)
        /\ seen500' = Record500("legacy", e, LegacyExceptClauses(e))
    /\ handler_runs' = handler_runs + 1
    /\ pc' = "done"
    /\ UNCHANGED <<healthVars, now, flow, current_user, payload, payload_in, request_data, request_id,
                   next_uuid, llm_calls, dispatch_calls, llm_response, dispatcher_result,
                   result, output>>

\* semantic.py:177-181,197-208  no handler is registered for the intent
DispatchUnroutable ==
    /\ pc = "lg_await_dispatch"
    /\ llm_response.intent \notin HandlerRegistry
    /\ LET e == UnroutableIntent(llm_response.intent)
       IN /\ raised' = e
          /\ http_error' = LegacyExceptClauses(e)
          /\ seen500' = Record500("legacy", e, LegacyExceptClauses(e))
    /\ pc' = "done"
    /\ UNCHANGED <<healthVars, now, flow, current_user, payload, payload_in, request_data, request_id,
                   next_uuid, llm_calls, dispatch_calls, handler_runs, llm_response,
                   dispatcher_result, result, output>>

\* ------------------------------------------------- get_application_status

DependencyStates == {"up", "down", "hung"}

\* a dict is the set of its <<key, value>> items
\* component_statuses[k] = v
Put(d, k, v) == {x \in d : x[1] # k} \cup {<<k, v>>}
Keys(d) == {x[1] : x \in d}
Get(d, k) == (CHOOSE x \in d : x[1] = k)[2]

\* status.py:41-47  entry written for the datastore ping
DbEntry(st) == IF st = "up" THEN "ok" ELSE "error"
\* status.py:51-57  entry written for the cache/broker ping
RedisEntry(st) == IF st = "up" THEN "ok" ELSE "error"
\* status.py:48  overall_ok after the datastore ping
OverallAfterDb(ok, st) == IF st = "up" THEN ok ELSE FALSE
\* the cache/broker outcome overwriting the running verdict
OverallAfterRedis_Overwrite(ok, st) == st = "up"

\* status.py:58  overall_ok after the cache/broker ping
OverallAfterRedis(ok, st) == IF st = "up" THEN ok ELSE FALSE
\* the worker pool reported as if it had been probed
CeleryWorkersEntry_Unavailable == "unavailable"

\* status.py:76  entry written for the worker pool
CeleryWorkersEntry == "check_not_implemented"
\* status.py:79
FinalStatus(ok) == IF ok THEN "ok" ELSE "error"
\* str.upper() of the two status texts
Upper(st) == IF st = "ok" THEN "OK" ELSE "ERROR"
\* status.py:80  f"Overall: {..} | Components: {..}"
StatusMessage(final, comps) ==
    [text |-> "Overall: {} | Components: {}", overall |-> Upper(final), components |-> comps]

\* status.py:23-42  entry; the datastore ping is sent
StatusCall ==
    /\ pc = "idle"
    /\ \E d \in DependencyStates, r \in DependencyStates :
        /\ db_state' = d
        /\ redis_state' = r
    /\ flow' = "status"
    /\ component_statuses' = {}
    /\ overall_ok' = TRUE
    /\ probes_issued' = <<"database_mongodb">>
    /\ pc' = "hc_await_db"
    /\ UNCHANGED <<now, current_user, payload, payload_in, request_data, request_id,
                   next_uuid, llm_calls, dispatch_calls, handler_runs, llm_response,
                   dispatcher_result, raised, http_error, result, output, seen500,
                   status_response>>

\* status.py:42-52  the datastore ping returns or raises; the cache ping is sent
DbPingCompletes ==
    /\ pc = "hc_await_db"
    /\ db_state # "hung"
    /\ component_statuses' = Put(component_statuses, "database_mongodb", DbEntry(db_state))
    /\ overall_ok' = OverallAfterDb(overall_ok, db_state)
    /\ probes_issued' = Append(probes_issued, "cache_broker_redis")
    /\ pc' = "hc_await_redis"
    /\ UNCHANGED <<now, gatewayVars, db_state, redis_state, status_response>>

\* status.py:52-89  the cache ping returns or raises; verdict and response
RedisPingCompletes ==
    /\ pc = "hc_await_redis"
    /\ redis_state # "hung"
    /\ LET comps == Put(Put(component_statuses, "cache_broker_redis", RedisEntry(redis_state)),
                        "celery_workers", CeleryWorkersEntry)
           ok == OverallAfterRedis(overall_ok, redis_state)
           final_status == FinalStatus(ok)
       IN /\ component_statuses' = comps
          /\ overall_ok' = ok
          /\ IF ~ok
             THEN /\ http_error' = HTTPException(503, StatusMessage(final_status, comps))
                  /\ UNCHANGED status_response
             ELSE /\ status_response' = [status |-> final_status,
                                         message |-> "All critical components operational."]
                  /\ UNCHANGED http_error
    /\ pc' = "done"
    /\ UNCHANGED <<now, flow, current_user, payload, payload_in, request_data, request_id,
                   next_uuid, llm_calls, dispatch_calls, handler_runs, llm_response,
                   dispatcher_result, raised, result, output, seen500,
                   db_state, redis_state, probes_issued>>

\* the response leaves the handler; the request-scoped objects are dropped
Respond ==
    /\ pc = "done"
    /\ pc' = "idle"
    /\ flow' = ""
    /\ current_user' = ""
    /\ payload' = NoPayload
    /\ payload_in' = NoPayload
    /\ request_data' = NoRequestData
    /\ request_id' = ""
    /\ llm_calls' = <<>>
    /\ dispatch_calls' = <<>>
    /\ handler_runs' = 0
    /\ llm_response' = NoLLMResponse
    /\ dispatcher_result' = NoDispatcherResult
    /\ raised' = NoException
    /\ http_error' = NoHTTPError
    /\ result' = NoResult
    /\ output' = NoOutput
    /\ probes_issued' = <<>>
    /\ component_statuses' = {}
    /\ overall_ok' = TRUE
    /\ status_response' = NoStatusResponse
    /\ db_state' = "up"
    /\ redis_state' = "up"
    /\ UNCHANGED <<now, next_uuid, seen500>>

\* datetime.now(timezone.utc) advances on its own
Tick ==
    /\ now < MaxClock
    /\ now' = now + 1
    /\ UNCHANGED <<pc, gatewayVars, healthVars>>

Next ==
    \/ ProcessRequestCall
    \/ ProcessRequestLLMReturns
    \/ ProcessRequestLLMRaises
    \/ LegacyProcessRequestCall
    \/ LegacyLLMReturns
    \/ LegacyLLMRaises
    \/ DispatchReturns
    \/ DispatchHandlerRaises
    \/ DispatchUnroutable
    \/ StatusCall
    \/ DbPingCompletes
    \/ RedisPingCompletes
    \/ Respond
    \/ Tick

Spec == Init /\ [][Next]_vars

\* every awaited collaborator that answers is eventually resumed by the event loop
FairSpec ==
    /\ Spec
    /\ WF_vars(ProcessRequestLLMReturns \/ ProcessRequestLLMRaises)
    /\ WF_vars(LegacyLLMReturns \/ LegacyLLMRaises)
    /\ WF_vars(DispatchReturns \/ DispatchHandlerRaises \/ DispatchUnroutable)
    /\ WF_vars(DbPingCompletes)
    /\ WF_vars(RedisPingCompletes)
    /\ WF_vars(Respond)

\* ================================================================= claims

Finished(f) == pc = "done" /\ flow = f
Succeeded(f) == Finished(f) /\ http_error.status_code = 0

\* C1: a gateway request whose payload user id differs from the authenticated
\* identity's id never reaches the LLM client or the dispatcher, and it ends
\* with the 403 authorization error.
C1_MismatchRejectedBeforeLLM ==
    /\ (flow = "process_request" /\ payload_in.metadata.user_id # current_user) =>
          /\ Len(llm_calls) = 0
          /\ Len(dispatch_calls) = 0
          /\ pc = "done" => http_error.status_code = 403
    /\ (flow = "legacy" /\ request_data.user_id # current_user) =>
          /\ Len(llm_calls) = 0
          /\ Len(dispatch_calls) = 0
          /\ handler_runs = 0
          /\ pc = "done" => http_error.status_code = 403

C1_Witness ==
    /\ Finished("process_request")
    /\ payload_in.metadata.user_id # current_user
    /\ TruthyList(payload_in.messages)
    /\ http_error.status_code = 403

\* C2: an authorized process_request with neither messages nor input populated
\* ends with the 400 "Request must contain either 'input' or 'messages'" error
\* and without an LLM call.
C2_MalformedRequestIs400 ==
    (/\ Finished("process_request")
     /\ payload_in.metadata.user_id = current_user
     /\ ~TruthyList(payload_in.messages)
     /\ ~TruthyStr(payload_in.input)) =>
        /\ Len(llm_calls) = 0
        /\ http_error = HTTPException(400, Text("Request must contain either 'input' or 'messages'"))

\* C3: the health check's overall status is "ok" exactly when both pings
\* succeed, each component entry reflects its own ping only, and 503 is raised
\* exactly when the overall status is "error".
C3_HealthVerdict ==
    Finished("status") =>
        LET both == db_state = "up" /\ redis_state = "up" IN
        /\ Get(component_statuses, "database_mongodb") = (IF db_state = "up" THEN "ok" ELSE "error")
        /\ Get(component_statuses, "cache_broker_redis") = (IF redis_state = "up" THEN "ok" ELSE "error")
        /\ probes_issued = <<"database_mongodb", "cache_broker_redis">>
        /\ both <=> status_response.status = "ok"
        /\ both <=> http_error.status_code = 0
        /\ ~both <=> http_error.status_code = 503
        /\ ~both => /\ http_error.detail.overall = "ERROR"
                    /\ http_error.detail.components = component_statuses
                    /\ status_response = NoStatusResponse

C3_Witness ==
    /\ Finished("status")
    /\ db_state = "down"
    /\ redis_state = "up"
    /\ Get(component_statuses, "cache_broker_redis") = "ok"
    /\ http_error.status_code = 503

\* C4: a health check whose one ping hangs still sends and finishes the other
\* ping and eventually returns its verdict.
C4_HungProbeDoesNotStall ==
    (flow = "status" /\ pc = "hc_await_db" /\ db_state = "hung" /\ redis_state = "up")
        ~> (pc = "done" /\ probes_issued = <<"database_mongodb", "cache_broker_redis">>)

GatewayFlows == {"process_request", "legacy"}

\* C6: a ValueError surfaces as 400; every other failure surfaces as 500, and
\* any two calls of one flow that fail outside the validation class give the
\* caller the same response, whatever the exception's class or text.
C6_TwoTierOpaqueFailures ==
    /\ (pc = "done" /\ flow \in GatewayFlows /\ raised # NoException) =>
          IF raised.type = "ValueError"
          THEN http_error = HTTPException(400, Text(raised.text))
          ELSE http_error.status_code = 500
    /\ \A a \in seen500, b \in seen500 :
          /\ a.response.status_code = 500
          /\ a.flow = b.flow => a.response = b.response

C6_Witness ==
    /\ pc = "done"
    /\ raised.type = "ConnectionError"
    /\ \E a \in seen500, b \in seen500 :
          /\ a.flow = b.flow
          /\ a.failure.type # b.failure.type
          /\ a.failure.text # b.failure.text

\* C7: the messages handed to the LLM client are the payload's messages when
\* that list is non-empty, and otherwise the single Message(text, user, input).
C7_EffectiveMessages ==
    (flow = "process_request" /\ pc \in {"pr_await_llm", "done"}
        /\ payload_in.metadata.user_id = current_user
        /\ (TruthyList(payload_in.messages) \/ TruthyStr(payload_in.input))) =>
        /\ Len(llm_calls) = 1
        /\ IF payload_in.messages.some /\ payload_in.messages.val # <<>>
           THEN llm_calls[1].messages = payload_in.messages.val
           ELSE llm_calls[1].messages =
                    <<[type |-> "text", role |-> "user", content |-> payload_in.input.val]>>

C7_Witness ==
    /\ flow = "process_request"
    /\ pc = "pr_await_llm"
    /\ ~payload_in.messages.some
    /\ payload_in.input = SomeStr("hello")
    /\ llm_calls[1].messages = <<[type |-> "text", role |-> "user", content |-> "hello"]>>

OtherMetadataEchoed ==
    /\ result.metadata.session_id = payload_in.metadata.session_id
    /\ result.metadata.user_id = payload_in.metadata.user_id
    /\ result.metadata.mode = payload_in.metadata.mode

NotFilledBeforeLLMReturns ==
    /\ (flow = "process_request" /\ pc = "pr_await_llm") => payload = payload_in
    /\ (Finished("process_request") /\ http_error.status_code # 0) => payload = payload_in

C9_LegacyOutput ==
    Succeeded("legacy") =>
        /\ output.status = (IF dispatcher_result.status.some
                            THEN dispatcher_result.status.val ELSE "success")
        /\ IF dispatcher_result.message.some
           THEN output.message = dispatcher_result.message.val
           ELSE \E i \in 1..Len(output.message) : output.message[i] = llm_response.intent
        /\ output.intent = llm_response.intent
        /\ output.data = dispatcher_result
        /\ output.request_id = request_id
        /\ request_id = Uuid4Str(next_uuid - 1)

C9_Witness ==
    /\ Succeeded("legacy")
    /\ ~dispatcher_result.status.some
    /\ ~dispatcher_result.message.some
    /\ output.status = "success"
    /\ output.request_id = "uuid-2"

ComponentHealthValues == {"ok", "error", "unavailable", "not_checked"}

\* C10 as stated: the worker-pool entry is "not_checked", every entry is one of
\* ok, error, unavailable, not_checked, and the verdict follows from the two
\* pings alone.
C10_WorkerPoolNotChecked ==
    Finished("status") =>
        /\ Get(component_statuses, "celery_workers") = "not_checked"
        /\ \A k \in Keys(component_statuses) : Get(component_statuses, k) \in ComponentHealthValues
        /\ overall_ok <=> (db_state = "up" /\ redis_state = "up")

\* C10 amended: the worker-pool entry is the marker "check_not_implemented",
\* which is none of ok, error, unavailable; every entry is one of ok, error,
\* unavailable, check_not_implemented; the verdict follows from the two pings
\* alone.
C10_WorkerPoolMarker ==
    Finished("status") =>
        /\ Get(component_statuses, "celery_workers") = "check_not_implemented"
        /\ Keys(component_statuses) = {"database_mongodb", "cache_broker_redis", "celery_workers"}
        /\ Cardinality(component_statuses) = 3
        /\ \A k \in Keys(component_statuses) :
              Get(component_statuses, k) \in {"ok", "error", "unavailable", "check_not_implemented"}
        /\ overall_ok <=> (Get(component_statuses, "database_mongodb") = "ok"
                           /\ Get(component_statuses, "cache_broker_redis") = "ok")
        /\ overall_ok <=> http_error.status_code # 503

C10_Witness ==
    /\ Finished("status")
    /\ overall_ok
    /\ Get(component_statuses, "celery_workers") = "check_not_implemented"

====
